---------------------------- MODULE Spec2Model ----------------------------
(***************************************************************************)
(* The two DAXPY benchmark drivers.                                        *)
(*                                                                         *)
(*   driver 1: src/src/daxpy_benchmark.cpp      (DaxpyBenchmark)           *)
(*   driver 2: src/src/multi_threaded_daxpy.cpp (MultiThreadedDaxpy)       *)
(*                                                                         *)
(* Vectors are functions over 0..N-1, as the source indexes them.  The     *)
(* doubles of the source are modelled by integers: every element is        *)
(* touched by one multiply and one add, so the model's arithmetic is the   *)
(* source's without rounding; x and y count in units of the verifier's     *)
(* tolerance, alpha is a plain number.                                     *)
(* One iteration of a DAXPY loop is one step:                              *)
(* `accessed` records every thread that touched an index, so two threads   *)
(* on one index show there, whatever the order of their reads and writes.  *)
(* The statistics hook points are the bodies of thread_worker's two        *)
(* if (thread_id == 0) blocks: the m5 calls of a GEM5 build, empty         *)
(* otherwise.                                                              *)
(***************************************************************************)
EXTENDS Integers, Sequences, FiniteSets, TLC

\* ----------------------------------------------------------------- bounds

\* Largest vector_size given on the command line.
MaxN == 3

\* std::thread::hardware_concurrency() of the machine the drivers run on.
HwConc == 3

\* Largest vector_size of the unit specification (partition and kernel as
\* pure functions).
UnitMaxN == 10

\* Values that stand for those the random source of driver 2 hands out
\* (dis(gen)).
Vals == {1, 2}

\* Values of alpha given on the command line.
Alphas == {-1, 2}

\* ------------------------------------------------------------------ state

VARIABLES
  driver,          \* 1: daxpy_benchmark.cpp, 2: multi_threaded_daxpy.cpp
  argc,            \* main's argc (driver 2)
  vector_size,     \* the vector_size argument / field
  num_threads,     \* the num_threads argument / field
  alpha,           \* the alpha argument / field
  x, y,            \* the vectors
  y_original,      \* driver 2's snapshot of y
  mpc,             \* where the main thread is
  mi,              \* the main thread's loop counter (launch, join, loops)
  exit_code,       \* -1 while the process runs, then main's return value
  wpc,             \* where each worker thread is
  wstart, wend,    \* each worker's start_idx / end_idx (start / end)
  wi,              \* each worker's loop index i
  wtoken,          \* the barrier phase each worker arrived in
  bar_expected,    \* thread_barrier: the count it was constructed with
  bar_count,       \* thread_barrier: arrivals the current phase still waits for
  bar_phase,       \* thread_barrier: completed phases
  parallel_result, \* verify_results' local copy
  correct,         \* verify_results' local
  max_error,       \* verify_results' local
  out,             \* the lines written to stdout / stderr, in order
  printed,         \* the values of the "First 10 results" line
  hooks,           \* history: the statistics hook points crossed, in order
  accessed,        \* history: per index, the workers that read or wrote y[i]
  y_before,        \* history: y when the workers were launched
  y_entry          \* history: y when verify_results was entered

vars == <<driver, argc, vector_size, num_threads, alpha, x, y, y_original,
          mpc, mi, exit_code, wpc, wstart, wend, wi, wtoken,
          bar_expected, bar_count, bar_phase,
          parallel_result, correct, max_error, out, printed, hooks,
          accessed, y_before, y_entry>>

dataVars == <<vector_size, num_threads, alpha, x, y_original>>
workerVars == <<wpc, wstart, wend, wi, wtoken>>
barrierVars == <<bar_expected, bar_count, bar_phase>>
verifyVars == <<parallel_result, correct, max_error, printed, y_entry>>

Empty == [i \in {} |-> 0]

Indices == 0 .. (vector_size - 1)

Workers == DOMAIN wpc

\* The process has not been aborted: its threads still run.
Alive == mpc # "aborted"

\* --------------------------------------------------------------- partition

\* driver 2, thread_worker: size_t elements_per_thread = vector_size / num_threads
elements_per_thread(N, T) == N \div T

\* Faulty variant of start_idx: the thread ids taken to count from 1.
start_idx_from_one(thread_id, N, T) ==
  (thread_id + 1) * elements_per_thread(N, T)

\* driver 2, thread_worker: size_t start_idx = thread_id * elements_per_thread
start_idx(thread_id, N, T) == thread_id * elements_per_thread(N, T)

\* Faulty variant of end_idx: the end index taken to be inclusive.
end_idx_inclusive(thread_id, N, T) ==
  IF thread_id = T - 1
    THEN N
    ELSE start_idx(thread_id, N, T) + elements_per_thread(N, T) + 1

\* Faulty variant of end_idx: the last worker is not given the remainder.
end_idx_no_remainder(thread_id, N, T) ==
  start_idx(thread_id, N, T) + elements_per_thread(N, T)

\* driver 2, thread_worker: end_idx
end_idx(thread_id, N, T) ==
  IF thread_id = T - 1
    THEN N
    ELSE start_idx(thread_id, N, T) + elements_per_thread(N, T)

\* driver 1, run_multithreaded: size_t chunk_size = vector_size / num_threads
chunk_size(N, T) == N \div T

\* driver 1, run_multithreaded: size_t start = t * chunk_size
chunk_start(t, N, T) == t * chunk_size(N, T)

\* Faulty variant of chunk_end: the end index taken to be inclusive.
chunk_end_inclusive(t, N, T) ==
  IF t = T - 1 THEN N ELSE (t + 1) * chunk_size(N, T) + 1

\* Faulty variant of chunk_end: the last worker is tested for as t == num_threads.
chunk_end_wrong_last(t, N, T) ==
  IF t = T THEN N ELSE (t + 1) * chunk_size(N, T)

\* driver 1, run_multithreaded: size_t end
chunk_end(t, N, T) ==
  IF t = T - 1 THEN N ELSE (t + 1) * chunk_size(N, T)

\* ------------------------------------------------------------------ kernel

\* Faulty variant of DaxpyAt: y[i] = alpha * x[i], the accumulation dropped.
DaxpyAt_no_accumulate(a, xv, yv, i) == [yv EXCEPT ![i] = a * xv[i]]

\* One iteration of the DAXPY loop: y[i] = alpha * x[i] + y[i]
DaxpyAt(a, xv, yv, i) == [yv EXCEPT ![i] = a * xv[i] + yv[i]]

\* for (i = s; i < e; ++i) y[i] = alpha * x[i] + y[i]
RECURSIVE DaxpyLoop(_, _, _, _, _)
DaxpyLoop(a, xv, yv, s, e) ==
  IF s < e THEN DaxpyLoop(a, xv, DaxpyAt(a, xv, yv, s), s + 1, e) ELSE yv

\* driver 1, the constructor: x[i] = i + 1, y[i] = vector_size - i
InitX1(N) == [i \in 0 .. (N - 1) |-> i + 1]
InitY1(N) == [i \in 0 .. (N - 1) |-> N - i]

\* ------------------------------------------------------------------ driver 2

\* main: if (argc != 4) { usage; return 1; }
Main2Usage ==
  /\ driver = 2 /\ mpc = "main"
  /\ argc # 4
  /\ out' = Append(out, "usage")
  /\ exit_code' = 1
  /\ mpc' = "exited"
  /\ UNCHANGED <<driver, argc, dataVars, y, mi, workerVars, barrierVars,
                 verifyVars, hooks, accessed, y_before>>

\* Faulty variants of ThreadsInvalid: the upper limit left out; 0 accepted.
ThreadsInvalid_no_upper(n) == n <= 0
ThreadsInvalid_zero_ok(n) == n < 0 \/ n > HwConc

\* main: num_threads <= 0 || num_threads > std::thread::hardware_concurrency()
ThreadsInvalid(n) == n <= 0 \/ n > HwConc

\* main: vector_size == 0
SizeInvalid(N) == N = 0

\* main: if (num_threads <= 0 || num_threads > hardware_concurrency()) return 1
Main2BadThreads ==
  /\ driver = 2 /\ mpc = "main"
  /\ argc = 4
  /\ ThreadsInvalid(num_threads)
  /\ out' = Append(out, "invalid_threads")
  /\ exit_code' = 1
  /\ mpc' = "exited"
  /\ UNCHANGED <<driver, argc, dataVars, y, mi, workerVars, barrierVars,
                 verifyVars, hooks, accessed, y_before>>

\* main: if (vector_size == 0) return 1
Main2BadSize ==
  /\ driver = 2 /\ mpc = "main"
  /\ argc = 4
  /\ ~ThreadsInvalid(num_threads)
  /\ SizeInvalid(vector_size)
  /\ out' = Append(out, "invalid_size")
  /\ exit_code' = 1
  /\ mpc' = "exited"
  /\ UNCHANGED <<driver, argc, dataVars, y, mi, workerVars, barrierVars,
                 verifyVars, hooks, accessed, y_before>>

\* Faulty variants of BarrierParties: one party short, and one party more (the
\* launcher counted as a party).
BarrierParties_one_short(threads) == threads - 1
BarrierParties_one_more(threads) == threads + 1

\* The party count the constructor gives thread_barrier: thread_barrier(threads)
BarrierParties(threads) == threads

\* main: MultiThreadedDaxpy benchmark(vector_size, num_threads, alpha), then
\* the call of run_parallel up to the launch loop.
Main2Construct ==
  /\ driver = 2 /\ mpc = "main"
  /\ argc = 4
  /\ ~ThreadsInvalid(num_threads)
  /\ ~SizeInvalid(vector_size)
  /\ \E xv \in [Indices -> Vals], yv \in [Indices -> Vals] :
       /\ x' = xv
       /\ y' = yv
       /\ y_original' = yv
       /\ y_before' = yv
  /\ bar_expected' = BarrierParties(num_threads)
  /\ bar_count' = BarrierParties(num_threads)
  /\ bar_phase' = 0
  /\ wpc' = [t \in 0 .. (num_threads - 1) |-> "idle"]
  /\ wstart' = [t \in 0 .. (num_threads - 1) |-> 0]
  /\ wend' = [t \in 0 .. (num_threads - 1) |-> 0]
  /\ wi' = [t \in 0 .. (num_threads - 1) |-> 0]
  /\ wtoken' = [t \in 0 .. (num_threads - 1) |-> 0]
  /\ accessed' = [i \in Indices |-> {}]
  /\ out' = out \o <<"header", "starting">>
  /\ mi' = 0
  /\ mpc' = "launch"
  /\ UNCHANGED <<driver, argc, vector_size, num_threads, alpha, exit_code,
                 verifyVars, hooks>>

\* run_parallel: threads.emplace_back(&thread_worker, this, i)
Launch2 ==
  /\ driver = 2 /\ mpc = "launch"
  /\ mi < num_threads
  /\ wpc' = [wpc EXCEPT ![mi] = "entry"]
  /\ mi' = mi + 1
  /\ UNCHANGED <<driver, argc, dataVars, y, mpc, exit_code, wstart, wend, wi,
                 wtoken, barrierVars, verifyVars, out, hooks, accessed,
                 y_before>>

\* run_parallel: threads.emplace_back throws std::system_error (no thread
\* could be created).  Unwinding to main's handler destroys `threads`: with a
\* joinable thread in it ~thread calls std::terminate and the process aborts;
\* with none, main's catch prints the error and returns 1.
LaunchFail2 ==
  /\ driver = 2 /\ mpc = "launch"
  /\ mi < num_threads
  /\ IF mi > 0
       THEN /\ mpc' = "aborted"
            /\ UNCHANGED <<out, exit_code>>
       ELSE /\ out' = Append(out, "error")
            /\ exit_code' = 1
            /\ mpc' = "exited"
  /\ UNCHANGED <<driver, argc, dataVars, y, mi, workerVars, barrierVars,
                 verifyVars, hooks, accessed, y_before>>

\* run_parallel: the launch loop ends, the join loop begins
LaunchDone2 ==
  /\ driver = 2 /\ mpc = "launch"
  /\ ~(mi < num_threads)
  /\ mi' = 0
  /\ mpc' = "join"
  /\ UNCHANGED <<driver, argc, dataVars, y, exit_code, workerVars,
                 barrierVars, verifyVars, out, hooks, accessed, y_before>>

\* std::barrier::arrive: one arrival; the last one completes the phase
BarrierArrive ==
  IF bar_count = 1
    THEN /\ bar_phase' = bar_phase + 1
         /\ bar_count' = bar_expected
         /\ bar_expected' = bar_expected
    ELSE /\ bar_count' = bar_count - 1
         /\ UNCHANGED <<bar_phase, bar_expected>>

\* Faulty variant of BarrierPassed: wait returns without waiting for the
\* phase to complete.
BarrierPassed_no_wait(token) == TRUE

\* std::barrier::wait(token): returns once the phase of the token completed
BarrierPassed(token) == bar_phase # token

\* Faulty variant of Worker2Arrive1: a worker whose range is empty returns at
\* once, without arriving at either barrier.
Worker2Arrive1_skip_empty(t) ==
  /\ Alive
  /\ driver = 2 /\ wpc[t] = "entry"
  /\ wstart' = [wstart EXCEPT ![t] = start_idx(t, vector_size, num_threads)]
  /\ wend' = [wend EXCEPT ![t] = end_idx(t, vector_size, num_threads)]
  /\ IF start_idx(t, vector_size, num_threads)
          < end_idx(t, vector_size, num_threads)
       THEN /\ wtoken' = [wtoken EXCEPT ![t] = bar_phase]
            /\ BarrierArrive
            /\ wpc' = [wpc EXCEPT ![t] = "wait1"]
       ELSE /\ wpc' = [wpc EXCEPT ![t] = "done"]
            /\ UNCHANGED <<wtoken, barrierVars>>
  /\ UNCHANGED <<driver, argc, dataVars, y, mpc, mi, exit_code, wi,
                 verifyVars, out, hooks, accessed, y_before>>

\* thread_worker: the work distribution, then the first arrive_and_wait's
\* arrival
Worker2Arrive1(t) ==
  /\ Alive
  /\ driver = 2 /\ wpc[t] = "entry"
  /\ wstart' = [wstart EXCEPT ![t] = start_idx(t, vector_size, num_threads)]
  /\ wend' = [wend EXCEPT ![t] = end_idx(t, vector_size, num_threads)]
  /\ wtoken' = [wtoken EXCEPT ![t] = bar_phase]
  /\ BarrierArrive
  /\ wpc' = [wpc EXCEPT ![t] = "wait1"]
  /\ UNCHANGED <<driver, argc, dataVars, y, mpc, mi, exit_code, wi,
                 verifyVars, out, hooks, accessed, y_before>>

\* Faulty variant of IsStatsLeader: the test on thread_id left out.
IsStatsLeader_any(thread_id) == TRUE

\* thread_worker: if (thread_id == 0), the worker that opens and closes the
\* statistics window
IsStatsLeader(thread_id) == thread_id = 0

\* thread_worker: the first arrive_and_wait returns
Worker2Pass1(t) ==
  /\ Alive
  /\ driver = 2 /\ wpc[t] = "wait1"
  /\ BarrierPassed(wtoken[t])
  /\ wpc' = [wpc EXCEPT ![t] = IF IsStatsLeader(t) THEN "stats_start" ELSE "loop"]
  /\ wi' = [wi EXCEPT ![t] = wstart[t]]
  /\ UNCHANGED <<driver, argc, dataVars, y, mpc, mi, exit_code, wstart, wend,
                 wtoken, barrierVars, verifyVars, out, hooks, accessed,
                 y_before>>

\* thread_worker: m5_dump_reset_stats(0, 0), the hook point that opens the
\* statistics window (a no-op unless built with GEM5)
Worker2StatsStart(t) ==
  /\ Alive
  /\ driver = 2 /\ wpc[t] = "stats_start"
  /\ hooks' = Append(hooks, <<t, "start">>)
  /\ wpc' = [wpc EXCEPT ![t] = "loop"]
  /\ UNCHANGED <<driver, argc, dataVars, y, mpc, mi, exit_code, wstart, wend,
                 wi, wtoken, barrierVars, verifyVars, out, accessed, y_before>>

\* thread_worker: one iteration of for (i = start_idx; i < end_idx; ++i)
Worker2Update(t) ==
  /\ Alive
  /\ driver = 2 /\ wpc[t] = "loop"
  /\ wi[t] < wend[t]
  /\ y' = DaxpyAt(alpha, x, y, wi[t])
  /\ accessed' = [accessed EXCEPT ![wi[t]] = @ \cup {t}]
  /\ wi' = [wi EXCEPT ![t] = @ + 1]
  /\ UNCHANGED <<driver, argc, dataVars, mpc, mi, exit_code, wpc, wstart,
                 wend, wtoken, barrierVars, verifyVars, out, hooks, y_before>>

\* thread_worker: the loop ends, the second arrive_and_wait's arrival
Worker2Arrive2(t) ==
  /\ Alive
  /\ driver = 2 /\ wpc[t] = "loop"
  /\ ~(wi[t] < wend[t])
  /\ wtoken' = [wtoken EXCEPT ![t] = bar_phase]
  /\ BarrierArrive
  /\ wpc' = [wpc EXCEPT ![t] = "wait2"]
  /\ UNCHANGED <<driver, argc, dataVars, y, mpc, mi, exit_code, wstart, wend,
                 wi, verifyVars, out, hooks, accessed, y_before>>

\* thread_worker: the second arrive_and_wait returns
Worker2Pass2(t) ==
  /\ Alive
  /\ driver = 2 /\ wpc[t] = "wait2"
  /\ BarrierPassed(wtoken[t])
  /\ wpc' = [wpc EXCEPT ![t] = IF IsStatsLeader(t) THEN "stats_stop" ELSE "done"]
  /\ UNCHANGED <<driver, argc, dataVars, y, mpc, mi, exit_code, wstart, wend,
                 wi, wtoken, barrierVars, verifyVars, out, hooks, accessed,
                 y_before>>

\* thread_worker: m5_dump_stats(0, 0), the hook point that closes the
\* statistics window, then the worker returns
Worker2StatsStop(t) ==
  /\ Alive
  /\ driver = 2 /\ wpc[t] = "stats_stop"
  /\ hooks' = Append(hooks, <<t, "stop">>)
  /\ wpc' = [wpc EXCEPT ![t] = "done"]
  /\ UNCHANGED <<driver, argc, dataVars, y, mpc, mi, exit_code, wstart, wend,
                 wi, wtoken, barrierVars, verifyVars, out, accessed, y_before>>

\* Faulty variant of Join2: the join returns without waiting for the thread.
Join2_no_wait ==
  /\ driver = 2 /\ mpc = "join"
  /\ mi < num_threads
  /\ mi' = mi + 1
  /\ UNCHANGED <<driver, argc, dataVars, y, mpc, exit_code, workerVars,
                 barrierVars, verifyVars, out, hooks, accessed, y_before>>

\* run_parallel: t.join(), for each thread in launch order
Join2 ==
  /\ driver = 2 /\ mpc = "join"
  /\ mi < num_threads
  /\ wpc[mi] = "done"
  /\ mi' = mi + 1
  /\ UNCHANGED <<driver, argc, dataVars, y, mpc, exit_code, workerVars,
                 barrierVars, verifyVars, out, hooks, accessed, y_before>>

\* run_parallel: the join loop ends; end_time, the execution time line, and
\* the call of verify_results
JoinDone2 ==
  /\ driver = 2 /\ mpc = "join"
  /\ ~(mi < num_threads)
  /\ out' = Append(out, "parallel_time")
  /\ mpc' = "verify"
  /\ UNCHANGED <<driver, argc, dataVars, y, mi, exit_code, workerVars,
                 barrierVars, verifyVars, hooks, accessed, y_before>>

\* std::abs
AbsVal(v) == IF v < 0 THEN -v ELSE v

\* std::max(a, b): (a < b) ? b : a
MaxVal(a, b) == IF a < b THEN b ELSE a

\* verify_results: the 1e-10 of if (error > 1e-10).  The values of x and y
\* count in units of it (alpha is a plain number), so that an error can be
\* below, at and above the tolerance.
Tolerance == 1

\* Faulty variant of BeyondTolerance: an error at the tolerance fails.
BeyondTolerance_at(error) == error >= Tolerance

\* verify_results: if (error > 1e-10)
BeyondTolerance(error) == error > Tolerance

\* verify_results: the comparison loop, from index i on, as <<correct, max_error>>
RECURSIVE CompareLoop(_, _, _, _, _, _)
CompareLoop(pr, yv, i, N, c, m) ==
  IF i < N
    THEN LET error == AbsVal(pr[i] - yv[i])
         IN  CompareLoop(pr, yv, i + 1, N,
                         IF BeyondTolerance(error) THEN FALSE ELSE c,
                         MaxVal(m, error))
    ELSE <<c, m>>

\* The values of the "First 10 results" line: y[0 .. min(10, vector_size) - 1]
First10(yv, N) == [i \in 0 .. ((IF 10 < N THEN 10 ELSE N) - 1) |-> yv[i]]

\* Faulty variant of VerifyRecompute: the copy goes the wrong way
\* (y_original = y), so the snapshot is overwritten with the parallel result.
VerifyRecompute_clobber_snapshot ==
  /\ driver = 2 /\ mpc = "verify"
  /\ parallel_result' = y
  /\ y_entry' = y
  /\ y_original' = y
  /\ y' = DaxpyLoop(alpha, x, y, 0, vector_size)
  /\ mpc' = "compare"
  /\ UNCHANGED <<driver, argc, vector_size, num_threads, alpha, x, mi,
                 exit_code, workerVars, barrierVars, correct, max_error, out,
                 printed, hooks, accessed, y_before>>

\* verify_results: parallel_result = y; y = y_original; the sequential loop
VerifyRecompute ==
  /\ driver = 2 /\ mpc = "verify"
  /\ parallel_result' = y
  /\ y_entry' = y
  /\ y' = DaxpyLoop(alpha, x, y_original, 0, vector_size)
  /\ mpc' = "compare"
  /\ UNCHANGED <<driver, argc, dataVars, mi, exit_code, workerVars,
                 barrierVars, correct, max_error, out, printed, hooks,
                 accessed, y_before>>

\* verify_results: the comparison loop and the verdict lines
VerifyCompare ==
  /\ driver = 2 /\ mpc = "compare"
  /\ LET r == CompareLoop(parallel_result, y, 0, vector_size, TRUE, 0)
     IN  /\ correct' = r[1]
         /\ max_error' = r[2]
         /\ out' = out \o <<IF r[1] THEN "PASSED" ELSE "FAILED", "max_error">>
  /\ mpc' = "restore"
  /\ UNCHANGED <<driver, argc, dataVars, y, mi, exit_code, workerVars,
                 barrierVars, parallel_result, printed, y_entry, hooks, accessed,
                 y_before>>

\* Faulty variant of VerifyRestore: the parallel result is not put back, the
\* "First 10 results" line shows the recomputation.
VerifyRestore_no_restore ==
  /\ driver = 2 /\ mpc = "restore"
  /\ printed' = First10(y, vector_size)
  /\ out' = Append(out, "first10")
  /\ mpc' = "finish"
  /\ UNCHANGED <<driver, argc, dataVars, y, mi, exit_code, workerVars,
                 barrierVars, parallel_result, correct, max_error, y_entry, hooks,
                 accessed, y_before>>

\* verify_results: y = parallel_result, then the "First 10 results" line;
\* verify_results and run_parallel return
VerifyRestore ==
  /\ driver = 2 /\ mpc = "restore"
  /\ y' = parallel_result
  /\ printed' = First10(y', vector_size)
  /\ out' = Append(out, "first10")
  /\ mpc' = "finish"
  /\ UNCHANGED <<driver, argc, dataVars, mi, exit_code, workerVars,
                 barrierVars, parallel_result, correct, max_error, y_entry, hooks,
                 accessed, y_before>>

\* Faulty variant of Main2Finish: a FAILED verdict ends the run with 1 and
\* without the banner.
Main2Finish_fail_on_mismatch ==
  /\ driver = 2 /\ mpc = "finish"
  /\ out' = IF correct THEN Append(out, "completed") ELSE Append(out, "error")
  /\ exit_code' = IF correct THEN 0 ELSE 1
  /\ mpc' = "exited"
  /\ UNCHANGED <<driver, argc, dataVars, y, mi, workerVars, barrierVars,
                 verifyVars, hooks, accessed, y_before>>

\* main: "Benchmark completed successfully!", return 0
Main2Finish ==
  /\ driver = 2 /\ mpc = "finish"
  /\ out' = Append(out, "completed")
  /\ exit_code' = 0
  /\ mpc' = "exited"
  /\ UNCHANGED <<driver, argc, dataVars, y, mi, workerVars, barrierVars,
                 verifyVars, hooks, accessed, y_before>>

\* ------------------------------------------------------------------ driver 1

\* main: the configuration echo, DaxpyBenchmark benchmark(...), and the choice
\* between run_multithreaded and run_single_threaded
Main1Construct ==
  /\ driver = 1 /\ mpc = "main"
  /\ x' = InitX1(vector_size)
  /\ y' = InitY1(vector_size)
  /\ y_before' = InitY1(vector_size)
  /\ wpc' = [t \in 0 .. (num_threads - 1) |-> "idle"]
  /\ wstart' = [t \in 0 .. (num_threads - 1) |-> 0]
  /\ wend' = [t \in 0 .. (num_threads - 1) |-> 0]
  /\ wi' = [t \in 0 .. (num_threads - 1) |-> 0]
  /\ wtoken' = [t \in 0 .. (num_threads - 1) |-> 0]
  /\ accessed' = [i \in Indices |-> {}]
  /\ out' = out \o <<"header", "starting">>
  /\ mi' = 0
  /\ mpc' = IF num_threads > 1 THEN "launch" ELSE "single"
  /\ UNCHANGED <<driver, argc, vector_size, num_threads, alpha, y_original,
                 exit_code, barrierVars, verifyVars, hooks>>

\* run_multithreaded: start, end, threads.emplace_back(&daxpy_thread, this,
\* start, end)
Launch1 ==
  /\ driver = 1 /\ mpc = "launch"
  /\ mi < num_threads
  /\ wstart' = [wstart EXCEPT ![mi] = chunk_start(mi, vector_size, num_threads)]
  /\ wend' = [wend EXCEPT ![mi] = chunk_end(mi, vector_size, num_threads)]
  /\ wi' = [wi EXCEPT ![mi] = chunk_start(mi, vector_size, num_threads)]
  /\ wpc' = [wpc EXCEPT ![mi] = "loop"]
  /\ mi' = mi + 1
  /\ UNCHANGED <<driver, argc, dataVars, y, mpc, exit_code, wtoken,
                 barrierVars, verifyVars, out, hooks, accessed, y_before>>

\* run_multithreaded: threads.emplace_back throws std::system_error.  main
\* has no handler: std::terminate, the process aborts.
LaunchFail1 ==
  /\ driver = 1 /\ mpc = "launch"
  /\ mi < num_threads
  /\ mpc' = "aborted"
  /\ UNCHANGED <<driver, argc, dataVars, y, mi, exit_code, workerVars,
                 barrierVars, verifyVars, out, hooks, accessed, y_before>>

\* run_multithreaded: the launch loop ends, the join loop begins
LaunchDone1 ==
  /\ driver = 1 /\ mpc = "launch"
  /\ ~(mi < num_threads)
  /\ mi' = 0
  /\ mpc' = "join"
  /\ UNCHANGED <<driver, argc, dataVars, y, exit_code, workerVars,
                 barrierVars, verifyVars, out, hooks, accessed, y_before>>

\* daxpy_thread in a worker: one iteration of for (i = start; i < end; ++i)
Worker1Update(t) ==
  /\ Alive
  /\ driver = 1 /\ wpc[t] = "loop"
  /\ wi[t] < wend[t]
  /\ y' = DaxpyAt(alpha, x, y, wi[t])
  /\ accessed' = [accessed EXCEPT ![wi[t]] = @ \cup {t}]
  /\ wi' = [wi EXCEPT ![t] = @ + 1]
  /\ UNCHANGED <<driver, argc, dataVars, mpc, mi, exit_code, wpc, wstart,
                 wend, wtoken, barrierVars, verifyVars, out, hooks, y_before>>

\* daxpy_thread in a worker: the loop ends, the thread returns
Worker1Return(t) ==
  /\ Alive
  /\ driver = 1 /\ wpc[t] = "loop"
  /\ ~(wi[t] < wend[t])
  /\ wpc' = [wpc EXCEPT ![t] = "done"]
  /\ UNCHANGED <<driver, argc, dataVars, y, mpc, mi, exit_code, wstart, wend,
                 wi, wtoken, barrierVars, verifyVars, out, hooks, accessed,
                 y_before>>

\* run_multithreaded: thread.join(), for each thread in launch order
Join1 ==
  /\ driver = 1 /\ mpc = "join"
  /\ mi < num_threads
  /\ wpc[mi] = "done"
  /\ mi' = mi + 1
  /\ UNCHANGED <<driver, argc, dataVars, y, mpc, exit_code, workerVars,
                 barrierVars, verifyVars, out, hooks, accessed, y_before>>

\* run_multithreaded: the join loop ends; end_time and the execution time line
JoinDone1 ==
  /\ driver = 1 /\ mpc = "join"
  /\ ~(mi < num_threads)
  /\ out' = Append(out, "multi_time")
  /\ mpc' = "print"
  /\ UNCHANGED <<driver, argc, dataVars, y, mi, exit_code, workerVars,
                 barrierVars, verifyVars, hooks, accessed, y_before>>

\* The main thread, where `accessed` names it
MainThread == -1

\* run_single_threaded: daxpy_thread(0, vector_size) on the main thread, one
\* iteration
Single1Update ==
  /\ driver = 1 /\ mpc = "single"
  /\ mi < vector_size
  /\ y' = DaxpyAt(alpha, x, y, mi)
  /\ accessed' = [accessed EXCEPT ![mi] = @ \cup {MainThread}]
  /\ mi' = mi + 1
  /\ UNCHANGED <<driver, argc, dataVars, mpc, exit_code, workerVars,
                 barrierVars, verifyVars, out, hooks, y_before>>

\* run_single_threaded: the loop ends; end_time and the execution time line
Single1Done ==
  /\ driver = 1 /\ mpc = "single"
  /\ ~(mi < vector_size)
  /\ out' = Append(out, "single_time")
  /\ mpc' = "print"
  /\ UNCHANGED <<driver, argc, dataVars, y, mi, exit_code, workerVars,
                 barrierVars, verifyVars, hooks, accessed, y_before>>

\* main: print_results, "Benchmark completed!", return 0
Main1Finish ==
  /\ driver = 1 /\ mpc = "print"
  /\ printed' = First10(y, vector_size)
  /\ out' = out \o <<"first10", "completed">>
  /\ exit_code' = 0
  /\ mpc' = "exited"
  /\ UNCHANGED <<driver, argc, dataVars, y, mi, workerVars, barrierVars,
                 parallel_result, correct, max_error, y_entry, hooks, accessed,
                 y_before>>

\* ------------------------------------------------------------ specification

\* The command lines: driver 1 is given all three arguments (its defaults,
\* 1000 elements, lie beyond MaxN); driver 2 is given two or three.
Init ==
  /\ driver \in {1, 2}
  /\ argc \in IF driver = 2 THEN {3, 4} ELSE {4}
  /\ vector_size \in 0 .. MaxN
  /\ num_threads \in IF driver = 2 THEN -1 .. (HwConc + 1) ELSE 0 .. (HwConc + 1)
  /\ alpha \in Alphas
  /\ x = Empty /\ y = Empty /\ y_original = Empty /\ y_before = Empty
  /\ mpc = "main" /\ mi = 0 /\ exit_code = -1
  /\ wpc = Empty /\ wstart = Empty /\ wend = Empty /\ wi = Empty
  /\ wtoken = Empty
  /\ bar_expected = 0 /\ bar_count = 0 /\ bar_phase = 0
  /\ parallel_result = Empty /\ correct = TRUE /\ max_error = 0
  /\ y_entry = Empty
  /\ out = <<>> /\ printed = Empty
  /\ hooks = <<>> /\ accessed = Empty

Next ==
  \/ Main2Usage
  \/ Main2BadThreads
  \/ Main2BadSize
  \/ Main2Construct
  \/ Launch2
  \/ LaunchFail2
  \/ LaunchDone2
  \/ \E t \in Workers : Worker2Arrive1(t)
  \/ \E t \in Workers : Worker2Pass1(t)
  \/ \E t \in Workers : Worker2StatsStart(t)
  \/ \E t \in Workers : Worker2Update(t)
  \/ \E t \in Workers : Worker2Arrive2(t)
  \/ \E t \in Workers : Worker2Pass2(t)
  \/ \E t \in Workers : Worker2StatsStop(t)
  \/ Join2
  \/ JoinDone2
  \/ VerifyRecompute
  \/ VerifyCompare
  \/ VerifyRestore
  \/ Main2Finish
  \/ Main1Construct
  \/ Launch1
  \/ LaunchFail1
  \/ LaunchDone1
  \/ \E t \in Workers : Worker1Update(t)
  \/ \E t \in Workers : Worker1Return(t)
  \/ Join1
  \/ JoinDone1
  \/ Single1Update
  \/ Single1Done
  \/ Main1Finish

Spec == Init /\ [][Next]_vars

\* ------------------------------------------------- the unit specification
\* The partition and the kernel as pure functions of their inputs: every
\* vector_size in 1..UnitMaxN, every num_threads in 1..vector_size, and the
\* known-input vectors x = 1, 2, 3, ... and y = 10, 20, 30, ...

KnownX(N) == [i \in 0 .. (N - 1) |-> i + 1]
KnownY(N) == [i \in 0 .. (N - 1) |-> 10 * (i + 1)]

UnitInit ==
  /\ driver \in {1, 2}
  /\ argc = 4
  /\ vector_size \in 1 .. UnitMaxN
  /\ num_threads \in 1 .. vector_size
  /\ alpha \in Alphas
  /\ x = KnownX(vector_size)
  /\ y = KnownY(vector_size)
  /\ y_original = KnownY(vector_size)
  /\ y_before = KnownY(vector_size)
  /\ mpc = "unit" /\ mi = 0 /\ exit_code = -1
  /\ wpc = [t \in 0 .. (num_threads - 1) |-> "idle"]
  /\ wstart = [t \in 0 .. (num_threads - 1) |-> 0]
  /\ wend = [t \in 0 .. (num_threads - 1) |-> 0]
  /\ wi = [t \in 0 .. (num_threads - 1) |-> 0]
  /\ wtoken = [t \in 0 .. (num_threads - 1) |-> 0]
  /\ bar_expected = 0 /\ bar_count = 0 /\ bar_phase = 0
  /\ parallel_result = Empty /\ correct = TRUE /\ max_error = 0
  /\ y_entry = Empty
  /\ out = <<>> /\ printed = Empty
  /\ hooks = <<>>
  /\ accessed = [i \in 0 .. (vector_size - 1) |-> {}]

\* The range worker t is given.  driver 2: thread_worker's start_idx and
\* end_idx.  driver 1: run_multithreaded's start and end when main takes
\* run_multithreaded (num_threads > 1), else run_single_threaded's
\* daxpy_thread(0, vector_size).
RangeOf(d, t, N, T) ==
  IF d = 2
    THEN <<start_idx(t, N, T), end_idx(t, N, T)>>
    ELSE IF T > 1
           THEN <<chunk_start(t, N, T), chunk_end(t, N, T)>>
           ELSE <<0, N>>

\* The next worker's range is computed
UnitRange ==
  /\ mpc = "unit"
  /\ mi < num_threads
  /\ wstart' = [wstart EXCEPT ![mi] = RangeOf(driver, mi, vector_size, num_threads)[1]]
  /\ wend' = [wend EXCEPT ![mi] = RangeOf(driver, mi, vector_size, num_threads)[2]]
  /\ wpc' = [wpc EXCEPT ![mi] = "ranged"]
  /\ mi' = mi + 1
  /\ UNCHANGED <<driver, argc, dataVars, y, mpc, exit_code, wi, wtoken,
                 barrierVars, verifyVars, out, hooks, accessed, y_before>>

\* A worker's whole loop over its range
UnitKernel(t) ==
  /\ mpc = "unit"
  /\ wpc[t] = "ranged"
  /\ y' = DaxpyLoop(alpha, x, y, wstart[t], wend[t])
  /\ accessed' = [i \in DOMAIN accessed |->
                    IF wstart[t] <= i /\ i < wend[t]
                      THEN accessed[i] \cup {t}
                      ELSE accessed[i]]
  /\ wi' = [wi EXCEPT ![t] = IF wstart[t] < wend[t] THEN wend[t] ELSE wstart[t]]
  /\ wpc' = [wpc EXCEPT ![t] = "done"]
  /\ UNCHANGED <<driver, argc, dataVars, mpc, mi, exit_code, wstart, wend,
                 wtoken, barrierVars, verifyVars, out, hooks, y_before>>

UnitNext ==
  \/ UnitRange
  \/ \E t \in Workers : UnitKernel(t)

UnitSpec == UnitInit /\ [][UnitNext]_vars

\* --------------------------------------------- the verifier specification
\* verify_results and the rest of main as a function of the fields on entry:
\* every x and y_original over Vals, every alpha, and for y on entry the
\* sequential result off by any deviation of Devs per element (the runs of
\* Spec only ever enter verify_results with deviation 0).

Devs == {-3, -2, 0, 1}

VerifyInit ==
  /\ driver = 2
  /\ argc = 4
  /\ vector_size \in 1 .. MaxN
  /\ num_threads = 1
  /\ alpha \in Alphas
  /\ x \in [Indices -> Vals]
  /\ y_original \in [Indices -> Vals]
  /\ y_before = y_original
  /\ \E d \in [Indices -> Devs] :
       y = [i \in Indices |-> alpha * x[i] + y_original[i] + d[i]]
  /\ mpc = "verify" /\ mi = 1 /\ exit_code = -1
  /\ wpc = [t \in {0} |-> "done"]
  /\ wstart = [t \in {0} |-> 0]
  /\ wend = [t \in {0} |-> vector_size]
  /\ wi = [t \in {0} |-> vector_size]
  /\ wtoken = [t \in {0} |-> 1]
  /\ bar_expected = 1 /\ bar_count = 1 /\ bar_phase = 2
  /\ parallel_result = Empty /\ correct = TRUE /\ max_error = 0
  /\ y_entry = Empty
  /\ out = <<"header", "starting", "parallel_time">> /\ printed = Empty
  /\ hooks = <<(<<0, "start">>), (<<0, "stop">>)>>
  /\ accessed = [i \in Indices |-> {0}]

VerifyNext ==
  \/ VerifyRecompute
  \/ VerifyCompare
  \/ VerifyRestore
  \/ Main2Finish

VerifySpec == VerifyInit /\ [][VerifyNext]_vars

\* The fair specification: whichever thread can take a step, some thread
\* eventually does (the scheduler never stops the whole process).
LiveSpec == Init /\ [][Next]_vars /\ WF_vars(Next)

\* ------------------------------------------------------------------ claims

InRange(t, i) == wstart[t] <= i /\ i < wend[t]

RangeSize(t) == wend[t] - wstart[t]

\* C1. Partition coverage: for every N >= 1 and 1 <= T <= N, once the T ranges
\* are computed (by thread_worker in driver 2, by run_multithreaded in driver 1
\* for T >= 2), every range lies in [0,N) and every index of [0,N) lies in
\* exactly one range: no gap, no overlap.
C1_PartitionCoverage ==
  (mpc = "unit" /\ mi = num_threads /\ (driver = 2 \/ num_threads >= 2)) =>
    /\ \A t \in Workers :
         0 <= wstart[t] /\ wstart[t] <= wend[t] /\ wend[t] <= vector_size
    /\ \A i \in Indices : Cardinality({t \in Workers : InRange(t, i)}) = 1

\* All ranges computed, two or more workers, and a remainder for the last one.
C1_Witness ==
  /\ mpc = "unit" /\ mi = num_threads
  /\ num_threads >= 2
  /\ vector_size % num_threads # 0
  /\ wend[num_threads - 1] = vector_size

\* C2. Partition formula: with chunk = N div T, worker t < T-1 has
\* [t*chunk, (t+1)*chunk) and worker T-1 has [(T-1)*chunk, N); consecutive
\* ranges are contiguous; the last range holds chunk + (N mod T) elements, at
\* most T-1 more than any other; T = 1 gives [0,N); N = 10, T = 3 gives
\* [0,3), [3,6), [6,10).
C2_PartitionFormula ==
  mpc = "unit" =>
    LET N == vector_size
        T == num_threads
        chunk == N \div T
    IN  /\ \A t \in 0 .. (mi - 1) :
             /\ t < T - 1 => wstart[t] = t * chunk /\ wend[t] = (t + 1) * chunk
             /\ t = T - 1 =>
                  /\ wstart[t] = (T - 1) * chunk
                  /\ wend[t] = N
                  /\ RangeSize(t) = chunk + (N % T)
                  /\ \A u \in 0 .. (T - 2) : RangeSize(t) - RangeSize(u) <= T - 1
             /\ t > 0 => wstart[t] = wend[t - 1]
        /\ (T = 1 /\ mi = 1) => (wstart[0] = 0 /\ wend[0] = N)
        /\ (N = 10 /\ T = 3 /\ mi = 3) =>
             /\ wstart[0] = 0 /\ wend[0] = 3
             /\ wstart[1] = 3 /\ wend[1] = 6
             /\ wstart[2] = 6 /\ wend[2] = 10

\* The ranges of N = 10, T = 3, all computed.
C2_Witness ==
  /\ mpc = "unit"
  /\ vector_size = 10 /\ num_threads = 3 /\ mi = 3
  /\ RangeSize(2) = 4

\* C4 as stated. Known input: N = 4, alpha = 2, x = [1,2,3,4],
\* y = [10,20,30,40]; once every worker has run its loop, with T = 1 and with
\* T = 4, y = [12,24,36,44].
C4_KnownInput_AsStated ==
  ( /\ mpc = "unit"
    /\ vector_size = 4 /\ alpha = 2 /\ num_threads \in {1, 4}
    /\ x = [i \in 0 .. 3 |-> <<1, 2, 3, 4>>[i + 1]]
    /\ y_before = [i \in 0 .. 3 |-> <<10, 20, 30, 40>>[i + 1]]
    /\ \A t \in Workers : wpc[t] = "done" ) =>
  y = [i \in 0 .. 3 |-> <<12, 24, 36, 44>>[i + 1]]

\* C4, amended. Known input: N = 4, alpha = 2, x = [1,2,3,4],
\* y = [10,20,30,40]; once every worker has run its loop, with T = 1 and with
\* T = 4, y = [12,24,36,48] (2*4 + 40 = 48).
C4_KnownInput ==
  ( /\ mpc = "unit"
    /\ vector_size = 4 /\ alpha = 2 /\ num_threads \in {1, 4}
    /\ x = [i \in 0 .. 3 |-> <<1, 2, 3, 4>>[i + 1]]
    /\ y_before = [i \in 0 .. 3 |-> <<10, 20, 30, 40>>[i + 1]]
    /\ \A t \in Workers : wpc[t] = "done" ) =>
  y = [i \in 0 .. 3 |-> <<12, 24, 36, 48>>[i + 1]]

\* The known input, four workers, every worker finished.
C4_Witness ==
  /\ mpc = "unit"
  /\ vector_size = 4 /\ alpha = 2 /\ num_threads = 4
  /\ x = [i \in 0 .. 3 |-> <<1, 2, 3, 4>>[i + 1]]
  /\ y_before = [i \in 0 .. 3 |-> <<10, 20, 30, 40>>[i + 1]]
  /\ \A t \in Workers : wpc[t] = "done"
  /\ \A i \in Indices : accessed[i] = {i}

\* The workers have all been joined and y holds what they left.
Joined ==
  \/ driver = 2 /\ mpc \in {"verify", "finish"}
  \/ driver = 1 /\ mpc = "print"
  \/ mpc = "exited" /\ exit_code = 0

\* C3. DAXPY postcondition: in both drivers, for every N, T and interleaving,
\* once all workers have been joined every index i of [0,N) has
\* y[i] = alpha*x[i] + y_before[i], and was updated by exactly one thread.
C3_DaxpyPostcondition ==
  Joined =>
    \A i \in Indices :
      /\ y[i] = alpha * x[i] + y_before[i]
      /\ Cardinality(accessed[i]) = 1

\* Driver 2, three workers joined after updating three elements.
C3_Witness ==
  /\ driver = 2 /\ mpc = "verify"
  /\ num_threads = 3 /\ vector_size = 3
  /\ \A i \in Indices : accessed[i] = {i}
  /\ y # y_before

\* C5. Exclusive ownership: in every reachable state of either driver, every
\* index of y has been accessed by at most one thread, the worker whose range
\* holds it (the main thread when main runs run_single_threaded), and no two
\* workers are about to access the same index.
C5_ExclusiveOwnership ==
  /\ \A i \in DOMAIN accessed :
       /\ Cardinality(accessed[i]) <= 1
       /\ \A t \in accessed[i] :
            IF t = MainThread
              THEN driver = 1 /\ num_threads <= 1
              ELSE t \in Workers /\ InRange(t, i)
  /\ \A t, u \in Workers :
       ( /\ t # u
         /\ wpc[t] = "loop" /\ wi[t] < wend[t]
         /\ wpc[u] = "loop" /\ wi[u] < wend[u] ) => wi[t] # wi[u]

\* Two workers in their loops at once, each with an update made, one with an
\* update still to make.
C5_Witness ==
  \E t, u \in Workers :
    /\ t # u
    /\ wpc[t] = "loop" /\ wi[t] > wstart[t] /\ wi[t] < wend[t]
    /\ wpc[u] = "loop" /\ wi[u] > wstart[u]

Arrived1(t) == wpc[t] \notin {"idle", "entry"}
Past1(t) == wpc[t] \in {"stats_start", "loop", "wait2", "stats_stop", "done"}
Arrived2(t) == wpc[t] \in {"wait2", "stats_stop", "done"}
Past2(t) == wpc[t] \in {"stats_stop", "done"}
Updated(t) == \E i \in DOMAIN accessed : t \in accessed[i]

\* C6. Barrier semantics in driver 2: no worker is past the first barrier or
\* has updated y before all T workers arrived at it; no worker is past the
\* second barrier before all T workers finished their loops and arrived at
\* it; the barrier completes a phase only with T arrivals of that phase, the
\* first phase counting arrivals at the first barrier only.
C6_BarrierSemantics ==
  (driver = 2 /\ mpc \notin {"main", "unit"} /\ exit_code # 1) =>
    /\ (\E t \in Workers : Past1(t) \/ Updated(t)) =>
         \A u \in Workers : Arrived1(u)
    /\ (\E t \in Workers : Past2(t)) =>
         \A u \in Workers : Arrived2(u) /\ wi[u] = wend[u]
    /\ bar_phase \in 0 .. 2
    /\ bar_phase = 0 =>
         /\ \A u \in Workers : ~Arrived2(u)
         /\ bar_count = num_threads - Cardinality({u \in Workers : Arrived1(u)})
    /\ bar_phase >= 1 => \A u \in Workers : Arrived1(u)
    /\ bar_phase = 1 =>
         bar_count = num_threads - Cardinality({u \in Workers : Arrived2(u)})
    /\ bar_phase = 2 => \A u \in Workers : Arrived2(u)
    /\ \A t \in Workers : wpc[t] = "wait1" => wtoken[t] = 0
    /\ \A t \in Workers : wpc[t] = "wait2" => wtoken[t] = 1

\* Three workers: one waits at the second barrier, one is still in its loop,
\* one has not yet returned from the first barrier.
C6_Witness ==
  /\ driver = 2 /\ num_threads = 3
  /\ bar_phase = 1
  /\ \E t, u, v \in Workers :
       wpc[t] = "wait2" /\ wpc[u] = "loop" /\ wpc[v] = "wait1"

\* C7. Instrumentation leader in driver 2: the hook points are crossed by
\* worker 0 only, "start" after worker 0 returned from the first barrier and
\* before "stop", "stop" after worker 0 returned from the second barrier; once
\* all T workers are joined each was crossed exactly once.
C7_StatsLeader ==
  (driver = 2) =>
    /\ \A k \in 1 .. Len(hooks) : hooks[k][1] = 0
    /\ \/ hooks = <<>>
       \/ hooks = <<(<<0, "start">>)>>
       \/ hooks = <<(<<0, "start">>), (<<0, "stop">>)>>
    /\ Len(hooks) >= 1 => (Past1(0) /\ wpc[0] # "stats_start" /\ bar_phase >= 1)
    /\ Len(hooks) = 2 => (wpc[0] = "done" /\ bar_phase = 2)
    /\ (mpc \in {"verify", "compare", "restore", "finish"}
          \/ (mpc = "exited" /\ exit_code = 0)) => Len(hooks) = 2

\* Three workers joined, both hook points crossed.
C7_Witness ==
  /\ driver = 2 /\ num_threads = 3
  /\ mpc = "verify"
  /\ Len(hooks) = 2

\* C8 as stated. The hook points bracket the compute window in driver 2: an
\* update of y has been made only if worker 0 crossed "start", and worker 0
\* crossed "stop" only if every worker finished its updates.
C8_HooksBracketUpdates ==
  (driver = 2 /\ mpc \notin {"main", "unit"} /\ exit_code # 1) =>
    /\ (\E t \in Workers : Updated(t)) => Len(hooks) >= 1
    /\ Len(hooks) = 2 => \A t \in Workers : Arrived2(t) /\ wi[t] = wend[t]

AllLaunched2 == driver = 2 /\ mpc = "join"

\* C9. No indefinite blocking in driver 2: under fair scheduling, once
\* run_parallel has launched all T workers, both barrier phases complete,
\* every worker finishes and run_parallel returns from all joins.
C9_NoIndefiniteBlocking ==
  AllLaunched2 ~>
    ( /\ driver = 2 /\ mpc = "verify"
      /\ bar_phase = 2
      /\ \A t \in Workers : wpc[t] = "done" )

\* Three workers launched; run_parallel is past its joins.
C9_Witness ==
  /\ driver = 2 /\ num_threads = 3
  /\ mpc = "compare"
  /\ bar_phase = 2
  /\ \A t \in Workers : wpc[t] = "done"

\* C10. Parallel/sequential equivalence in driver 2: for every N >= 1, every
\* accepted T, every alpha, x and y and every interleaving, the parallel
\* result equals the sequential recomputation element by element and the
\* verdict is PASSED.
C10_ParallelEqualsSequential ==
  (driver = 2) =>
    /\ mpc = "compare" =>
         \A i \in Indices : parallel_result[i] = y[i]
    /\ mpc = "restore" =>
         /\ \A i \in Indices : parallel_result[i] = y[i]
         /\ correct /\ max_error = 0
         /\ out[Len(out) - 1] = "PASSED"
    /\ \A k \in 1 .. Len(out) : out[k] # "FAILED"

\* The verdict of a run with three workers and three elements.
C10_Witness ==
  /\ driver = 2 /\ mpc = "restore"
  /\ num_threads = 3 /\ vector_size = 3
  /\ correct
  /\ \E k \in 1 .. Len(out) : out[k] = "PASSED"

\* The sequential result: y_seq[i] = alpha*x[i] + y_original[i]
SeqResult == [i \in Indices |-> alpha * x[i] + y_original[i]]

\* C11. State non-leakage: verify_results overwrites y with the sequential
\* recomputation, but when it returns y is element for element what it was on
\* entry, and the "First 10 results" line is printed only then, from that y,
\* also when the recomputation differs from it.
C11_StateNonLeakage ==
  (driver = 2 /\ exit_code # 1) =>
    /\ mpc \in {"compare", "restore"} =>
         /\ y = SeqResult
         /\ printed = Empty
         /\ \A k \in 1 .. Len(out) : out[k] # "first10"
    /\ mpc \in {"finish", "exited"} =>
         /\ y = y_entry
         /\ printed = First10(y_entry, vector_size)
         /\ \E k \in 1 .. Len(out) : out[k] = "first10"

\* verify_results has returned from an entry with three elements, none of
\* them what the recomputation gives.
C11_Witness ==
  /\ driver = 2 /\ mpc = "finish"
  /\ vector_size = 3
  /\ \A i \in Indices : y_entry[i] # SeqResult[i]
  /\ printed = y_entry

\* |y_par[i] - y_seq[i]|, and its maximum over all i
ErrorAt(i) == AbsVal(parallel_result[i] - SeqResult[i])
MaxErrorOverAll ==
  LET E == {ErrorAt(i) : i \in Indices}
  IN  CHOOSE m \in E : \A e \in E : e <= m

\* C12. Verifier verdict: verify_results reports PASSED exactly when the
\* maximum over all i of |y_par[i] - y_seq[i]| is at most the tolerance, with
\* y_seq[i] = alpha*x[i] + y_original[i], and FAILED otherwise; the maximum
\* error it reports is that maximum, whatever the verdict.
C12_VerifierVerdict ==
  (driver = 2 /\ mpc \in {"restore", "finish", "exited"} /\ exit_code # 1) =>
    /\ correct <=> (MaxErrorOverAll <= Tolerance)
    /\ max_error = MaxErrorOverAll
    /\ correct <=> (\E k \in 1 .. Len(out) : out[k] = "PASSED")
    /\ ~correct <=> (\E k \in 1 .. Len(out) : out[k] = "FAILED")

\* A FAILED verdict whose first mismatch (2) is not the largest error (3),
\* with an error at the tolerance after both.
C12_Witness ==
  /\ driver = 2 /\ mpc = "restore"
  /\ vector_size = 3
  /\ ErrorAt(0) = 2 /\ ErrorAt(1) = 3 /\ ErrorAt(2) = Tolerance
  /\ ~correct
  /\ max_error = 3

\* C13. Boundary rejection in driver 2: with an argument count other than 3
\* (argc # 4), num_threads <= 0 or above hardware_concurrency(), or
\* vector_size = 0, main's only step is the return of 1 (with the usage text
\* for a wrong count); no vector is allocated, no worker is launched and no
\* update is made.
C13_BoundaryRejection ==
  ( /\ driver = 2
    /\ \/ argc # 4
       \/ num_threads <= 0
       \/ num_threads > HwConc
       \/ vector_size = 0 ) =>
    /\ mpc \in {"main", "exited"}
    /\ mpc = "main" =>
         /\ ENABLED (Main2Usage \/ Main2BadThreads \/ Main2BadSize)
         /\ ~ENABLED Main2Construct
    /\ mpc = "exited" =>
         /\ exit_code = 1
         /\ Len(out) = 1
         /\ argc # 4 => out = <<"usage">>
    /\ x = Empty /\ y = Empty /\ y_original = Empty
    /\ Workers = {}
    /\ accessed = Empty

\* Driver 2 has returned 1 for a thread count above hardware_concurrency().
C13_Witness ==
  /\ driver = 2 /\ argc = 4
  /\ num_threads = HwConc + 1 /\ vector_size > 0
  /\ mpc = "exited" /\ exit_code = 1
  /\ out = <<"invalid_threads">>

\* C14 as stated. Thread-launch failure in driver 2: whichever thread's
\* creation fails, main's catch reports the error and main returns 1.
C14_LaunchFailureCaught ==
  [][LaunchFail2 =>
       (mpc' = "exited" /\ exit_code' = 1 /\ out' = Append(out, "error"))]_vars

\* C15. A correctness mismatch is not a process failure: in driver 2, after
\* the verdict FAILED verify_results goes on to restore and print, run_parallel
\* returns, the banner is printed and main returns 0, with the output of a
\* PASSED run but for the verdict.
C15_MismatchExitsZero ==
  (driver = 2 /\ \E k \in 1 .. Len(out) : out[k] = "FAILED") =>
    /\ mpc \in {"restore", "finish", "exited"}
    /\ mpc = "restore" => ENABLED VerifyRestore
    /\ mpc = "finish" => ENABLED Main2Finish
    /\ mpc = "exited" =>
         /\ exit_code = 0
         /\ out = <<"header", "starting", "parallel_time", "FAILED",
                    "max_error", "first10", "completed">>

\* main has returned 0 after the verdict FAILED.
C15_Witness ==
  /\ driver = 2 /\ mpc = "exited"
  /\ ~correct /\ max_error = 3
  /\ exit_code = 0
  /\ out[Len(out)] = "completed"

\* C16 as stated. Thread count 0 is invalid in both drivers: a configuration
\* error is signalled (no return of 0), no partition is computed and no
\* element of y is modified.
C16_ZeroThreadsRejected_AsStated ==
  (num_threads = 0 /\ mpc # "unit") =>
    /\ Workers = {}
    /\ \A i \in DOMAIN accessed : accessed[i] = {}
    /\ y \in {Empty, y_before}
    /\ mpc = "exited" => exit_code # 0

\* C16, amended. Thread count 0 is invalid in driver 2 only: main returns 1
\* before anything is allocated or computed.  Driver 1 does not reject it:
\* main takes run_single_threaded, so no partition is computed and no worker
\* is launched, but the main thread updates every element of y and main
\* returns 0.
C16_ZeroThreads ==
  (num_threads = 0 /\ mpc # "unit") =>
    /\ Workers = {}
    /\ mpc \in {"main", "single", "print", "exited"}
    /\ driver = 2 =>
         /\ mpc \in {"main", "exited"}
         /\ mpc = "exited" => exit_code = 1
         /\ y = Empty /\ accessed = Empty
    /\ (driver = 1 /\ mpc \in {"print", "exited"}) =>
         /\ \A i \in Indices :
              /\ y[i] = alpha * x[i] + y_before[i]
              /\ accessed[i] = {MainThread}
         /\ mpc = "exited" => exit_code = 0

\* Driver 1 has returned 0 for num_threads = 0 with three elements updated.
C16_Witness ==
  /\ driver = 1 /\ num_threads = 0 /\ vector_size = 3
  /\ mpc = "exited" /\ exit_code = 0
  /\ \A i \in Indices : y[i] # y_before[i]

\* A launched worker that has not returned from its thread function
Running(t) == wpc[t] \notin {"idle", "done"}

\* The end timestamp has been taken (its execution time line is printed)
EndTimeTaken ==
  \E k \in 1 .. Len(out) : out[k] \in {"parallel_time", "multi_time"}

\* C17. Join ordering: in both drivers the launcher takes the end timestamp,
\* and in driver 2 starts verify_results, only after every launched worker has
\* finished; verify_results, and print_results in driver 1, never run while a
\* worker is still running.
C17_JoinOrdering ==
  (mpc # "unit") =>
    /\ EndTimeTaken => \A t \in Workers : ~Running(t)
    /\ mpc \in {"verify", "compare", "restore", "finish", "print"} =>
         \A t \in Workers : ~Running(t)
    /\ (mpc \in {"verify", "compare", "restore", "finish", "print"}
        /\ (driver = 2 \/ num_threads > 1)) =>
         \A t \in Workers : wpc[t] = "done"

\* Driver 1 is at print_results after three workers, driver 2 is in
\* verify_results after three workers.
C17_Witness ==
  /\ num_threads = 3 /\ vector_size = 3
  /\ mpc \in {"print", "compare"}
  /\ EndTimeTaken
  /\ \A t \in Workers : wpc[t] = "done"
  /\ \A i \in Indices : accessed[i] # {}

\* The object is constructed: main is past the constructor call (a rejected
\* command line returns before it, without the configuration header)
Constructed ==
  /\ mpc \notin {"main", "unit"}
  /\ \E k \in 1 .. Len(out) : out[k] = "header"

\* C18. Read-only inputs: from the end of construction to process exit no
\* step of a worker, of run_parallel or of verify_results changes x, alpha or
\* the snapshot y_original (nor the sizes); of the data, only y and
\* verify_results' copy of it change.
C18_ReadOnlyInputs ==
  [][Constructed =>
       /\ x' = x
       /\ alpha' = alpha
       /\ y_original' = y_original
       /\ vector_size' = vector_size
       /\ num_threads' = num_threads]_vars

\* verify_results has run after three workers changed all of y; the snapshot
\* is still the initial y.
C18_Witness ==
  /\ driver = 2 /\ mpc = "finish"
  /\ num_threads = 3 /\ vector_size = 3
  /\ \A i \in Indices : y[i] # y_original[i]
  /\ y_original = y_before

\* More threads than elements, after construction
MoreThreadsThanElements ==
  /\ Constructed
  /\ vector_size >= 1
  /\ num_threads > vector_size

\* Worker t has computed its range (driver 2: in thread_worker, before the
\* first barrier; driver 1: in the launch loop)
RangeComputed(t) == wpc[t] \notin {"idle", "entry"}

\* C19. More threads than elements: when T > N >= 1, workers 0..T-2 get the
\* empty range [0,0) and worker T-1 gets [0,N), so every index is updated by
\* worker T-1 alone; in driver 2 the workers with empty ranges still arrive at
\* both barriers, so a fully launched run reaches verify_results with both
\* barrier phases completed, and the joined run has
\* y[i] = alpha*x[i] + y_before[i] for every i.
C19_MoreThreadsThanElements ==
  /\ [](MoreThreadsThanElements =>
          /\ \A t \in Workers : RangeComputed(t) =>
               /\ wstart[t] = 0
               /\ wend[t] = IF t = num_threads - 1 THEN vector_size ELSE 0
          /\ \A i \in Indices : accessed[i] \subseteq {num_threads - 1}
          /\ \A t \in Workers :
               (driver = 2 /\ t < num_threads - 1 /\ wpc[t] = "done") =>
                 bar_phase = 2
          /\ mpc \in {"verify", "print"} =>
               \A i \in Indices :
                 /\ accessed[i] = {num_threads - 1}
                 /\ y[i] = alpha * x[i] + y_before[i])
  /\ ((AllLaunched2 /\ MoreThreadsThanElements) ~>
        ( /\ mpc = "verify"
          /\ bar_phase = 2
          /\ \A t \in Workers : wpc[t] = "done" ))

\* Driver 2 with three workers and two elements is at verify_results: worker 2
\* updated both elements, workers 0 and 1 none.
C19_Witness ==
  /\ driver = 2 /\ mpc = "verify"
  /\ num_threads = 3 /\ vector_size = 2
  /\ bar_phase = 2
  /\ \A t \in Workers : wpc[t] = "done"
  /\ \A i \in Indices : accessed[i] = {2}
  /\ \A i \in Indices : y[i] = alpha * x[i] + y_before[i]

\* Driver 2's launch loop has not launched all num_threads workers: it is
\* still running, or a thread creation failed in it (mi is the index of the
\* worker not created)
PartialLaunch ==
  /\ driver = 2 /\ Constructed
  /\ mi < num_threads
  /\ mpc \in {"launch", "aborted", "exited"}

\* C20. Partial launch leaves y untouched: in driver 2, while fewer than T
\* workers are launched, and after a thread creation failed at some k < T, the
\* launched workers are not past the first barrier, its phase has not
\* completed, no hook was called and no element of y was modified: y equals
\* y_original.
C20_PartialLaunchUntouched ==
  PartialLaunch =>
    /\ y = y_original
    /\ \A i \in Indices : accessed[i] = {}
    /\ \A t \in Workers :
         wpc[t] \in (IF t < mi THEN {"entry", "wait1"} ELSE {"idle"})
    /\ bar_phase = 0
    /\ hooks = <<>>

\* The creation of the third of three workers failed; the two launched
\* workers have arrived at the first barrier.
C20_Witness ==
  /\ driver = 2 /\ mpc = "aborted"
  /\ num_threads = 3 /\ vector_size = 3 /\ mi = 2
  /\ wpc[0] = "wait1" /\ wpc[1] = "wait1"
  /\ y = y_original

=============================================================================
